---------------------------- MODULE Spec2Model ----------------------------
(***************************************************************************)
(* A model of the EventCatalog OpenAPI generator (default export of        *)
(* index.ts and its helpers buildService, buildMessage,                    *)
(* getOperationsByType, getMessageTypeUtils).                              *)
(*                                                                         *)
(* The catalog is the file store behind @eventcatalog/sdk.  Each           *)
(* collection (domains, services, events, commands, queries) is a set of   *)
(* entries; an entry is "current" (the resource's own directory) or        *)
(* "versioned" (its versioned/<version> directory).  The sdk primitives    *)
(* the generator calls are modelled by their contract: get(id, 'latest')   *)
(* reads the current entry, version(id) moves the current entry and its    *)
(* files to the versioned directory, write(.., override) replaces the      *)
(* current entry file and leaves the other files of the directory alone.   *)
(*                                                                         *)
(* A run of the generator is split at its awaits into steps: validation    *)
(* of a spec, the domain block, one step per operation, the service        *)
(* block, the attachment of the spec files.                                *)
(***************************************************************************)
EXTENDS Integers, Sequences, FiniteSets, TLC

\* Bounds of the model.
MaxVer == 2
MaxRuns == 2

Versions == 1 .. MaxVer

\* "No value": undefined / null / a missing catalog entry.
Nil == [nil |-> TRUE]

NoFiles == [n \in {} |-> ""]

\* JavaScript's { ...a, ...b }: the keys of both, b's value where both have one.
Spread(a, b) == b @@ a

RECURSIVE SeqToSet(_)
SeqToSet(s) == IF s = <<>> THEN {} ELSE {Head(s)} \cup SeqToSet(Tail(s))

---------------------------------------------------------------------------
(* The OpenAPI documents.  A document is one of a few fixture files with   *)
(* the version its info block declares.  An operation of a fixture lists   *)
(* what getOperationsByType and buildMessage read: "" is an absent string, *)
(* 0 an absent version override.  A path is the sequence of its segments   *)
(* and a segment, like every id and name, the sequence of its pieces, of   *)
(* which "_" is always one of its own: "/products/{productId}" is          *)
(* << <<"products">>, <<"{productId}">> >>, "/" is << >>.                   *)

RawOp(path, method, operationId, xType, xAction, xId, xName, xVersion, summary, body, responses) ==
  [path |-> path, method |-> method, operationId |-> operationId,
   xType |-> xType, xAction |-> xAction, xId |-> xId, xName |-> xName,
   xVersion |-> xVersion, summary |-> summary, body |-> body, responses |-> responses]

\* The responses of an operation: status code to the schema of the first content
\* type; NoContentType stands for a response whose `content` is the empty map.
NoResponses == [n \in {} |-> ""]

NoContentType == "content: {}"

\* petstore.yml: an id/name override and an event the service sends.
PetstoreOps ==
  << RawOp(<< <<"pets">> >>, "get", "listPets", "", "", "list-pets", "List Pets", 0,
           "List all pets", "", "200" :> "Pets"),
     RawOp(<< <<"pets">>, <<"{petId}">>, <<"vaccinated">> >>, "post", "petVaccinated", "event", "sends",
           "", "", 0, "Notify that a pet has been vaccinated", "Vaccination", NoResponses) >>

\* ref-example-with-versioned-message.yml: users2 overrides its version and says
\* it is a query; users3 takes the id of users and names a type that is none of
\* event, command, query.
VersionedOps ==
  << RawOp(<< <<"v1">>, <<"users">> >>, "get", "users", "", "", "", "", 0, "List all users", "",
           "200" :> "UserSignup"),
     RawOp(<< <<"v2">>, <<"users">> >>, "get", "users2", "query", "", "", "", 2, "List all users", "",
           "200" :> "UserSignup"),
     RawOp(<< <<"v3">>, <<"users">> >>, "get", "users3", "topic", "", "users", "", 0, "List all users", "",
           NoResponses) >>

\* petstore-v2.yml: a revision of the petstore: listPets is now sent and carries a
\* version of its own, createPets is a new command.
PetstoreV2Ops ==
  << RawOp(<< <<"pets">> >>, "get", "listPets", "", "sends", "list-pets", "List Pets", 2,
           "List every pet", "", "200" :> "Pets"),
     RawOp(<< <<"pets">> >>, "post", "createPets", "command", "", "", "", 0,
           "Create a pet", "Pet", NoResponses) >>

\* without-operationIds.yml: no operation has an operationId; the paths are "/",
\* "/products/{productId}" and "/products_{productId}".
WithoutOperationIdsOps ==
  << RawOp(<< >>, "get", "", "", "", "", "", 0, "List the products", "", NoResponses),
     RawOp(<< <<"products">>, <<"{productId}">> >>, "get", "", "", "", "", "", 0,
           "Get a product", "", NoResponses),
     RawOp(<< <<"products", "_", "{productId}">> >>, "get", "", "", "", "", "", 0,
           "Get a product (legacy)", "", NoResponses) >>

\* What `for (const method in pathItem)` finds under a key of the path item that
\* is not an operation (`parameters`, `summary`, `servers`, ...): a value without
\* operationId, extensions, request body or responses.
NotAnOperation(path, key) == RawOp(path, key, "", "", "", "", "", 0, "", "", NoResponses)

\* cart.yml: the path item of /cart holds, in this order, post, the parameters
\* all its operations share, and get; no operation has an operationId.
CartOps ==
  << RawOp(<< <<"cart">> >>, "post", "", "command", "", "", "", 0, "Add an item", "Item",
           "201" :> "Cart"),
     NotAnOperation(<< <<"cart">> >>, "parameters"),
     RawOp(<< <<"cart">> >>, "get", "", "", "", "", "", 0, "Show the cart", "",
           "200" :> "Cart") >>

\* checkout.yml: the 204 response of the second operation declares `content: {}`.
CheckoutOps ==
  << RawOp(<< <<"checkout">> >>, "post", "checkout", "command", "", "", "", 0,
           "Check out", "Order", "201" :> "Receipt"),
     RawOp(<< <<"checkout">> >>, "delete", "cancelCheckout", "command", "", "", "", 0,
           "Cancel the checkout", "", "204" :> NoContentType) >>

\* A spec served over http, and a spec kept as JSON; both hold the petstore.
RemotePath == "https://raw.githubusercontent.com/event-catalog/generator-openapi/refs/heads/main/examples/petstore/openapi.yml"

FileNames == {"petstore.yml", "versioned.yml", "petstore-v2.yml", "without-operationIds.yml",
              "petstore.json", RemotePath, "cart.yml", "checkout.yml"}

\* path.basename(serviceOptions.path).
Basename(path) == IF path = RemotePath THEN "openapi.yml" ELSE path

\* service.path.startsWith('http') and service.path.endsWith('.json').
IsRemote(path) == path = RemotePath

IsSpecFileJSON(path) == path = "petstore.json"

Fixture(file) ==
  CASE file \in {"petstore.yml", "petstore.json", RemotePath} ->
         [title |-> "Swagger Petstore", description |-> "A sample Petstore server",
          tags |-> <<"Pets">>, ops |-> PetstoreOps]
    [] file = "versioned.yml" ->
         [title |-> "Test Service", description |-> "",
          tags |-> <<>>, ops |-> VersionedOps]
    [] file = "petstore-v2.yml" ->
         [title |-> "Petstore API", description |-> "The new Petstore server",
          tags |-> <<"Pets", "Store">>, ops |-> PetstoreV2Ops]
    [] file = "without-operationIds.yml" ->
         [title |-> "Product API", description |-> "Products",
          tags |-> <<>>, ops |-> WithoutOperationIdsOps]
    [] file = "cart.yml" ->
         [title |-> "Cart API", description |-> "The cart",
          tags |-> <<>>, ops |-> CartOps]
    [] file = "checkout.yml" ->
         [title |-> "Checkout API", description |-> "The checkout",
          tags |-> <<>>, ops |-> CheckoutOps]

\* SwaggerParser.dereference(serviceSpec.path): the content of the file, which
\* declares `version` at the time of the run.
Document(path, version) ==
  [info |-> [title |-> Fixture(path).title,
             version |-> version,
             description |-> Fixture(path).description],
   tags |-> Fixture(path).tags,
   paths |-> Fixture(path).ops]

---------------------------------------------------------------------------
(* Entity builders.                                                        *)

\* slugify(title, { lower: true }).
Slugify(title) ==
  CASE title = "Swagger Petstore" -> "swagger-petstore"
    [] title = "Test Service" -> "test-service"
    [] title = "Petstore API" -> "petstore-api"
    [] title = "Product API" -> "product-api"
    [] title = "Cart API" -> "cart-api"
    [] title = "Checkout API" -> "checkout-api"

ToUpperCase(method) ==
  CASE method = "get" -> "GET"
    [] method = "post" -> "POST"
    [] method = "delete" -> "DELETE"
    [] method = "parameters" -> "PARAMETERS"

RECURSIVE TagBadges(_)
TagBadges(tags) ==
  IF tags = <<>> THEN <<>>
  ELSE <<[content |-> Head(tags), textColor |-> "blue", backgroundColor |-> "blue"]>>
         \o TagBadges(Tail(tags))

\* services.ts defaultMarkdown: generated from the document.
ServiceMarkdown(document) == [by |-> "generator", of |-> document.info.description]

\* A markdown body a user wrote into the catalog.
UserMarkdown == [by |-> "user", of |-> "Here is my original markdown"]

\* domains.ts defaultMarkdown.
generateMarkdownForDomain == [by |-> "generator", of |-> "domain"]

buildService(serviceSpec, document) ==
  [id |-> IF serviceSpec.id # "" THEN serviceSpec.id ELSE Slugify(document.info.title),
   version |-> document.info.version,
   name |-> document.info.title,
   summary |-> document.info.description,
   schemaPath |-> Basename(serviceSpec.path),
   specifications |-> ("openapiPath" :> Basename(serviceSpec.path)),
   markdown |-> ServiceMarkdown(document),
   badges |-> TagBadges(document.tags)]

DEFAULT_MESSAGE_TYPE == "query"

\* One Operation of getOperationsByType.
Operation(openAPIOperation) ==
  [path |-> openAPIOperation.path,
   method |-> ToUpperCase(openAPIOperation.method),
   operationId |-> openAPIOperation.operationId,
   type |-> IF openAPIOperation.xType # "" THEN openAPIOperation.xType
            ELSE DEFAULT_MESSAGE_TYPE,
   action |-> IF openAPIOperation.xAction = "sends" THEN "sends" ELSE "receives",
   summary |-> openAPIOperation.summary,
   extensions |-> [id |-> openAPIOperation.xId, name |-> openAPIOperation.xName,
                   version |-> openAPIOperation.xVersion]]

\* A slip of getOperationsByType: the operations come out last first.
OperationsOf_Reversed(paths) ==
  [i \in 1 .. Len(paths) |-> Operation(paths[Len(paths) + 1 - i])]

\* The operations in the order of the paths of the document and their methods.
RECURSIVE OperationsOf(_)
OperationsOf(paths) ==
  IF paths = <<>> THEN <<>> ELSE <<Operation(Head(paths))>> \o OperationsOf(Tail(paths))

getOperationsByType(document) == OperationsOf(document.paths)

\* The first operation of the document whose operationId equals the one asked
\* for; its request body schema ("" when it has none).
RECURSIVE FirstWithOperationId(_, _)
FirstWithOperationId(paths, operationId) ==
  IF paths = <<>> THEN Nil
  ELSE IF Head(paths).operationId = operationId THEN Head(paths)
  ELSE FirstWithOperationId(Tail(paths), operationId)

\* Object.keys(response.content)[0] of an empty `content` is undefined and the
\* read of its schema a TypeError, which the catch of the function turns, like
\* "Operation with ID ... not found", into undefined.
getSchemasByOperationId(document, operationId) ==
  LET typedOperation == FirstWithOperationId(document.paths, operationId)
  IN  IF typedOperation = Nil THEN Nil
      ELSE IF \E statusCode \in DOMAIN typedOperation.responses :
                typedOperation.responses[statusCode] = NoContentType
      THEN Nil
      ELSE [requestBody |-> typedOperation.body, responses |-> typedOperation.responses]

\* operation.path.replace(/\//, '').replace(/\//g, '_'): the segments joined by "_".
RECURSIVE JoinPath(_)
JoinPath(segments) ==
  IF segments = <<>> THEN <<>>
  ELSE IF Len(segments) = 1 THEN Head(segments)
  ELSE Head(segments) \o <<"_">> \o JoinPath(Tail(segments))

\* A slip of buildMessage: the path is left out of the identifier.
UniqueIdentifier_WithoutPath(document, operation) ==
  IF operation.operationId # "" THEN <<operation.operationId>>
  ELSE <<Slugify(document.info.title), "_", operation.method>>

\* A message id or name is a string, held as the sequence of its pieces.
UniqueIdentifier(document, operation) ==
  IF operation.operationId # "" THEN <<operation.operationId>>
  ELSE LET path == JoinPath(operation.path)
       IN  <<Slugify(document.info.title), "_", operation.method>>
             \o (IF path # <<>> THEN <<"_">> \o path ELSE <<>>)

\* messages.ts defaultMarkdown: the overview, the "Request Body" section when the
\* schemas have a request body, and one section per status code of the responses.
MessageMarkdown(operation, openAPIOperation) ==
  [by |-> "generator", of |-> operation.summary,
   requestBody |-> openAPIOperation.requestBody # "",
   responses |-> DOMAIN openAPIOperation.responses]

\* markdownForResponses reads Object.entries(openAPIOperation.responses): with the
\* schemas undefined, openAPIOperation is {} and buildMessage throws a TypeError.
buildMessageThrows(document, operation) ==
  getSchemasByOperationId(document, operation.operationId) = Nil

\* A slip of buildMessage: the version override is ignored.
MessageVersion_Document(document, operation) == document.info.version

MessageVersion(document, operation) ==
  IF operation.extensions.version # 0 THEN operation.extensions.version
  ELSE document.info.version

buildMessage(document, operation) ==
  LET schemas == getSchemasByOperationId(document, operation.operationId)
      requestBodiesAndResponses ==
        IF schemas # Nil THEN schemas ELSE [requestBody |-> "", responses |-> NoResponses]
      uniqueIdentifier == UniqueIdentifier(document, operation)
      hasBody == requestBodiesAndResponses.requestBody # ""
  IN  [id |-> IF operation.extensions.id # "" THEN <<operation.extensions.id>>
              ELSE uniqueIdentifier,
       version |-> MessageVersion(document, operation),
       name |-> IF operation.extensions.name # "" THEN <<operation.extensions.name>>
                ELSE uniqueIdentifier,
       summary |-> operation.summary,
       markdown |-> MessageMarkdown(operation, requestBodiesAndResponses),
       schemaPath |-> IF hasBody THEN "request-body.json" ELSE "",
       badges |-> <<[content |-> operation.method, textColor |-> "blue",
                     backgroundColor |-> "blue"]>>,
       requestBody |-> requestBodiesAndResponses.requestBody,
       responses |-> requestBodiesAndResponses.responses]

\* A slip of the shorthand: an unknown type falls back to the event functions.
getMessageTypeUtils_EventsByDefault(messageType) ==
  CASE messageType = "event" -> "events"
    [] messageType = "command" -> "commands"
    [] messageType = "query" -> "queries"
    [] OTHER -> "events"

\* catalog-shorthand.ts: the collection a message type is read from and written to.
getMessageTypeUtils(messageType) ==
  CASE messageType = "event" -> "events"
    [] messageType = "command" -> "commands"
    [] OTHER -> "queries"

---------------------------------------------------------------------------
(* The catalog behind @eventcatalog/sdk.                                   *)

Collections == {"domains", "services", "events", "commands", "queries"}

EmptyCatalog == [c \in Collections |-> {}]

\* getX(id, 'latest'): the current entry of the id, or undefined.
GetLatest(entries, id) ==
  IF \E e \in entries : e.id = id /\ e.loc = "current"
  THEN CHOOSE e \in entries : e.id = id /\ e.loc = "current"
  ELSE Nil

\* getX(id, version): the entry of the id at that version, the current one first.
GetVersion(entries, id, version) ==
  IF \E e \in entries : e.id = id /\ e.version = version /\ e.loc = "current"
  THEN CHOOSE e \in entries : e.id = id /\ e.version = version /\ e.loc = "current"
  ELSE IF \E e \in entries : e.id = id /\ e.version = version
  THEN CHOOSE e \in entries : e.id = id /\ e.version = version
  ELSE Nil

\* versionX(id): the current entry moves, with its files, to versioned/<version>,
\* taking the place of whatever was archived there.
VersionResource(entries, id) ==
  LET current == GetLatest(entries, id)
  IN  IF current = Nil THEN entries
      ELSE {e \in entries : ~(e.id = id /\ (e.loc = "current" \/ e.version = current.version))}
             \cup {[current EXCEPT !.loc = "versioned"]}

\* writeX(resource, { path: id, override: true }): the entry file of the id's
\* directory is replaced; the other files of the directory stay.
WriteResource(entries, resource) ==
  LET current == GetLatest(entries, resource.id)
  IN  {e \in entries : ~(e.id = resource.id /\ e.loc = "current")}
        \cup {[resource EXCEPT !.loc = "current",
                               !.files = IF current = Nil THEN NoFiles ELSE current.files]}

\* addFileToX(id, file, version).
AddFile(entries, id, fileName, content, version) ==
  LET target == GetVersion(entries, id, version)
  IN  IF target = Nil THEN entries
      ELSE (entries \ {target})
             \cup {[target EXCEPT !.files = Spread(target.files, fileName :> content)]}

\* addFileToX for each of the files, which have different names.
RECURSIVE AddFiles(_, _, _, _)
AddFiles(entries, id, files, version) ==
  IF DOMAIN files = {} THEN entries
  ELSE LET n == CHOOSE n \in DOMAIN files : TRUE
       IN  AddFiles(AddFile(entries, id, n, files[n], version), id,
                    [m \in DOMAIN files \ {n} |-> files[m]], version)

\* The sdk's writeService keeps the first of the entries of sends and of receives
\* that have the same id and version.
RECURSIVE UniqueVersions(_, _)
UniqueVersions(messages, seen) ==
  IF messages = <<>> THEN <<>>
  ELSE IF Head(messages) \in seen THEN UniqueVersions(Tail(messages), seen)
  ELSE <<Head(messages)>> \o UniqueVersions(Tail(messages), seen \cup {Head(messages)})

WriteService(entries, service) ==
  WriteResource(entries, [service EXCEPT !.sends = UniqueVersions(service.sends, {}),
                                         !.receives = UniqueVersions(service.receives, {})])

\* addServiceToDomain(id, service, version): the reference is appended to the
\* services of the domain at that version unless it is listed already.
AddServiceToDomain(entries, id, service, version) ==
  LET domain == GetVersion(entries, id, version)
  IN  IF domain = Nil \/ service \in SeqToSet(domain.services) THEN entries
      ELSE (entries \ {domain})
             \cup {[domain EXCEPT !.services = Append(domain.services, service)]}

\* getSpecificationFilesForService(id, 'latest'): the files the specifications
\* of the current entry name, as far as they are attached.
GetSpecificationFiles(entries, id) ==
  LET current == GetLatest(entries, id)
      names == IF current = Nil THEN {}
               ELSE {current.specifications[k] : k \in DOMAIN current.specifications}
                      \cap DOMAIN current.files
  IN  [n \in names |-> current.files[n]]

---------------------------------------------------------------------------
(* What a catalog holds before the generator first runs: nothing, or what  *)
(* a user wrote with the sdk.                                              *)

Ref(id, version) == [id |-> id, version |-> version]

BareService(version) ==
  [id |-> "swagger-petstore", version |-> version, loc |-> "current",
   name |-> "Random Name", summary |-> "", schemaPath |-> "",
   specifications |-> NoFiles, markdown |-> UserMarkdown, badges |-> <<>>,
   sends |-> <<>>, receives |-> <<>>, owners |-> <<>>, repository |-> "",
   files |-> NoFiles]

RichService(version) ==
  [BareService(version) EXCEPT
     !.specifications = ("asyncapiPath" :> "simple.asyncapi.yml") @@ ("openapiPath" :> "old.yml"),
     !.sends = <<Ref(<<"usersignedup">>, 1)>>,
     !.receives = <<Ref(<<"userloggedin">>, 1), Ref(<<"list-pets">>, 1)>>,
     !.owners = <<"John Doe">>,
     !.repository = "https://github.com/event-catalog/eventcatalog",
     !.files = ("simple.asyncapi.yml" :> "Some content") @@ ("old.yml" :> "old contents")]

UserMessage(version) ==
  [id |-> <<"list-pets">>, version |-> version, loc |-> "current",
   name |-> <<"Random Name value">>, summary |-> "List pets", markdown |-> UserMarkdown,
   schemaPath |-> "", badges |-> <<>>, files |-> NoFiles]

UserDomain(version) ==
  [id |-> "orders", version |-> version, loc |-> "current", name |-> "Orders Domain",
   markdown |-> UserMarkdown, services |-> <<>>, files |-> NoFiles]

Seeds ==
  {EmptyCatalog}
    \cup {[EmptyCatalog EXCEPT !["services"] = {s}] :
            s \in {BareService(v) : v \in Versions} \cup {RichService(v) : v \in Versions}}
    \cup {[EmptyCatalog EXCEPT !["queries"] = {UserMessage(v)}] : v \in Versions}
    \cup {[EmptyCatalog EXCEPT !["domains"] = {UserDomain(v)}] : v \in Versions}

---------------------------------------------------------------------------
(* The options of a run.  A service spec names a file; `version` and       *)
(* `valid` are what that file declares and whether SwaggerParser.validate  *)
(* accepts it when the run reads it.                                       *)

ServiceSpec(id, path, version, valid) ==
  [id |-> id, path |-> path, version |-> version, valid |-> valid]

Domain(version) == [id |-> "orders", name |-> "Orders", version |-> version]

\* Props: services, domain and saveParsedSpecFile (false when omitted).
Options(services, domain, saveParsedSpecFile) ==
  [services |-> services, domain |-> domain, saveParsedSpecFile |-> saveParsedSpecFile]

Configs ==
  {Options(<<ServiceSpec("swagger-petstore", f, v, TRUE)>>, Nil, FALSE) :
     f \in {"petstore.yml", "petstore-v2.yml"}, v \in Versions}
    \cup {Options(<<ServiceSpec("swagger-petstore", "petstore.yml", 1, FALSE)>>, Nil, FALSE)}
    \cup {Options(<<ServiceSpec("product-api", "without-operationIds.yml", v, TRUE)>>,
                   Nil, FALSE) : v \in Versions}
    \cup {Options(<<ServiceSpec("swagger-petstore", "petstore.yml", v, TRUE)>>,
                   Domain(dv), FALSE) : v \in Versions, dv \in Versions}
    \cup {Options(<<ServiceSpec("swagger-petstore", "petstore.yml", 1, a),
                     ServiceSpec("test-service", "versioned.yml", 1, b)>>,
                   Domain(1), FALSE) : a \in BOOLEAN, b \in BOOLEAN}
    \cup {Options(<<ServiceSpec("", "petstore.yml", 1, TRUE)>>, Nil, FALSE)}
    \cup {Options(<<ServiceSpec("swagger-petstore", f, 1, TRUE)>>, Nil, TRUE) :
            f \in {"petstore.yml", "petstore.json"}}
    \cup {Options(<<ServiceSpec("swagger-petstore", RemotePath, 1, TRUE)>>, Nil, FALSE)}
    \cup {Options(<<ServiceSpec("swagger-petstore", RemotePath, 1, TRUE),
                     ServiceSpec("test-service", "versioned.yml", 1, TRUE)>>, Nil, FALSE)}
    \cup {Options(<<ServiceSpec("cart-api", "cart.yml", 1, TRUE)>>, Nil, FALSE)}
    \cup {Options(<<ServiceSpec("checkout-api", "checkout.yml", 1, TRUE)>>, Nil, FALSE)}

\* process.env.PROJECT_DIR when the generator is called: the catalog directory,
\* or "" when it is not set.
CatalogDir == "/catalog"

\* The calls of the generator: the options and the environment.
Invocations ==
  {[options |-> o, env |-> CatalogDir] : o \in Configs}
    \cup {[options |-> Options(<<ServiceSpec("swagger-petstore", "petstore.yml", 1, TRUE)>>,
                               Nil, FALSE),
           env |-> ""]}

---------------------------------------------------------------------------
(* The state.                                                              *)

VARIABLES
  catalog,                  \* the catalog directory (PROJECT_DIR)
  pc,                       \* where the run stands
  runs,                     \* runs started so far
  options,                  \* the options of the run
  specIndex,                \* the service spec of options.services in progress
  operationIndex,           \* the operation of the spec in progress
  sends,                    \* processMessagesForOpenAPISpec: sends
  receives,                 \* processMessagesForOpenAPISpec: receives
  latestServiceInCatalog,   \* what getService(service.id, 'latest') returned
  serviceSpecificationsFiles, \* what getSpecificationFilesForService returned
  pre,                      \* history: the catalog when the run started
  previousRun,              \* history: the options and `pre` of the run before
  calls,                    \* history: the sdk calls of the run on domains, services and messages
  env,                      \* history: process.env.PROJECT_DIR when the run was called
  PROJECT_DIR,              \* process.env.PROJECT_DIR
  thrown                    \* the run has ended with an error thrown

vars == <<catalog, pc, runs, options, specIndex, operationIndex, sends, receives,
          latestServiceInCatalog, serviceSpecificationsFiles, pre, previousRun, calls,
          env, PROJECT_DIR, thrown>>

\* A call of an sdk primitive; `arg` is the service reference handed to
\* addServiceToDomain.
Call(name, collection, id, version) ==
  [call |-> name, collection |-> collection, id |-> id, version |-> version, arg |-> Nil]

serviceSpec == options.services[specIndex]
document == Document(serviceSpec.path, serviceSpec.version)
service == buildService(serviceSpec, document)
operations == getOperationsByType(document)

Init ==
  /\ catalog \in Seeds
  /\ pc = "idle"
  /\ runs = 0
  /\ options = Options(<<>>, Nil, FALSE)
  /\ specIndex = 0
  /\ operationIndex = 0
  /\ sends = <<>>
  /\ receives = <<>>
  /\ latestServiceInCatalog = Nil
  /\ serviceSpecificationsFiles = NoFiles
  /\ pre = catalog
  /\ previousRun = Nil
  /\ calls = <<>>
  /\ env = CatalogDir
  /\ PROJECT_DIR = CatalogDir
  /\ thrown = FALSE

\* The default export is called with the options.
StartRun ==
  /\ pc = "idle"
  /\ runs < MaxRuns
  /\ \E invocation \in Invocations :
       /\ options' = invocation.options
       /\ env' = invocation.env
       /\ PROJECT_DIR' = IF invocation.env = "" THEN "process.cwd()" ELSE invocation.env
       /\ specIndex' = 1
       /\ pc' = IF invocation.options.services = <<>> THEN "idle" ELSE "validate"
  /\ thrown' = FALSE
  /\ runs' = runs + 1
  /\ pre' = catalog
  /\ previousRun' = IF runs = 0 THEN Nil
                    ELSE [options |-> options, pre |-> pre, thrown |-> thrown]
  /\ calls' = <<>>
  /\ operationIndex' = 0
  /\ sends' = <<>>
  /\ receives' = <<>>
  /\ latestServiceInCatalog' = Nil
  /\ serviceSpecificationsFiles' = NoFiles
  /\ UNCHANGED catalog

\* A slip of the loop: the outcome of the validation is ignored.
Validates_Always(spec) == TRUE

\* SwaggerParser.validate(serviceSpec.path) returns (TRUE) or throws (FALSE).
Validates(spec) == spec.valid

\* The loop goes on with the next service spec, or the run ends.
NextSpec ==
  /\ specIndex' = specIndex + 1
  /\ pc' = IF specIndex < Len(options.services) THEN "validate" ELSE "idle"

\* SwaggerParser.validate(serviceSpec.path) throws: the spec is skipped.
ValidationFails ==
  /\ pc = "validate"
  /\ ~Validates(serviceSpec)
  /\ NextSpec
  /\ UNCHANGED <<catalog, runs, options, operationIndex, sends, receives,
                 latestServiceInCatalog, serviceSpecificationsFiles, pre, previousRun, calls,
                 env, PROJECT_DIR, thrown>>

\* The spec is valid: the document is dereferenced and the service built.
ValidationPasses ==
  /\ pc = "validate"
  /\ Validates(serviceSpec)
  /\ pc' = IF options.domain # Nil THEN "domain" ELSE "messages"
  /\ operationIndex' = 1
  /\ sends' = <<>>
  /\ receives' = <<>>
  /\ latestServiceInCatalog' = Nil
  /\ serviceSpecificationsFiles' = NoFiles
  /\ UNCHANGED <<catalog, runs, options, specIndex, pre, previousRun, calls,
                 env, PROJECT_DIR, thrown>>

\* "Found a domain, but the versions do not match".
MustVersionDomain(currentDomain, domainVersion) ==
  currentDomain # Nil /\ currentDomain.version # domainVersion

\* A slip of the domain block: the domain is written on every run.
MustWriteDomain_Always(domain, domainVersion) == TRUE

\* "Do we need to create a new domain?"
MustWriteDomain(domain, domainVersion) ==
  domain = Nil \/ domain.version # domainVersion

\* A slip of the domain block: the reference carries the version of the domain.
ServiceReference_DomainVersion(built, domainVersion) == Ref(built.id, domainVersion)

\* "Add the service to the domain": { id: service.id, version: service.version }.
ServiceReference(built, domainVersion) == Ref(built.id, built.version)

\* The domain block of the loop body.
DomainBlock(domains) ==
  LET domainId == options.domain.id
      domainVersion == options.domain.version
      domain == GetVersion(domains, domainId, domainVersion)
      currentDomain == GetLatest(domains, domainId)
      mustVersion == MustVersionDomain(currentDomain, domainVersion)
      mustWrite == MustWriteDomain(domain, domainVersion)
      versioned == IF mustVersion THEN VersionResource(domains, domainId) ELSE domains
      written == IF mustWrite
                 THEN WriteResource(versioned,
                        [id |-> domainId, name |-> options.domain.name,
                         version |-> domainVersion, loc |-> "current",
                         markdown |-> generateMarkdownForDomain, services |-> <<>>,
                         files |-> NoFiles])
                 ELSE versioned
  IN  [entries |-> AddServiceToDomain(written, domainId,
                                      ServiceReference(service, domainVersion),
                                      domainVersion),
       calls |-> (IF mustVersion
                  THEN <<Call("versionDomain", "domains", domainId, currentDomain.version)>>
                  ELSE <<>>)
                 \o (IF mustWrite
                     THEN <<Call("writeDomain", "domains", domainId, domainVersion)>>
                     ELSE <<>>)
                 \o <<[Call("addServiceToDomain", "domains", domainId, domainVersion)
                        EXCEPT !.arg = ServiceReference(service, domainVersion)]>>]

ManageDomain ==
  /\ pc = "domain"
  /\ LET block == DomainBlock(catalog["domains"])
     IN  /\ catalog' = [catalog EXCEPT !["domains"] = block.entries]
         /\ calls' = calls \o block.calls
  /\ pc' = "messages"
  /\ UNCHANGED <<runs, options, specIndex, operationIndex, sends, receives,
                 latestServiceInCatalog, serviceSpecificationsFiles, pre, previousRun,
                 env, PROJECT_DIR, thrown>>

\* processMessagesForOpenAPISpec: what is kept of a cataloged message.
MessageMarkdownToWrite(catalogedMessage, message) ==
  IF catalogedMessage # Nil THEN catalogedMessage.markdown ELSE message.markdown

\* processMessagesForOpenAPISpec: "if the version does not match, we need to
\* version the message"; `version` is the document's.
MustVersionMessage(catalogedMessage, version) ==
  catalogedMessage # Nil /\ catalogedMessage.version # version

\* processMessagesForOpenAPISpec: the bucket of the service the message goes to.
Bucket(messageAction) == IF messageAction = "sends" THEN "sends" ELSE "receives"

\* `response-${statusCode}.json`.
ResponseFileName(statusCode) ==
  CASE statusCode = "200" -> "response-200.json"
    [] statusCode = "201" -> "response-201.json"
    [] statusCode = "204" -> "response-204.json"

\* The files of the responses: one per status code, holding the schema.
ResponseFiles(responses) ==
  [n \in {ResponseFileName(statusCode) : statusCode \in DOMAIN responses} |->
     responses[CHOOSE statusCode \in DOMAIN responses : ResponseFileName(statusCode) = n]]

\* One turn of the loop of processMessagesForOpenAPISpec.
ProcessMessage ==
  /\ pc = "messages"
  /\ operationIndex <= Len(operations)
  /\ ~buildMessageThrows(document, operations[operationIndex])
  /\ LET operation == operations[operationIndex]
         message == buildMessage(document, operation)
         version == document.info.version
         collection == getMessageTypeUtils(operation.type)
         catalogedMessage == GetLatest(catalog[collection], message.id)
         mustVersion == MustVersionMessage(catalogedMessage, version)
         versioned == IF mustVersion THEN VersionResource(catalog[collection], message.id)
                      ELSE catalog[collection]
         written == WriteResource(versioned,
                      [id |-> message.id, version |-> message.version, loc |-> "current",
                       name |-> message.name, summary |-> message.summary,
                       markdown |-> MessageMarkdownToWrite(catalogedMessage, message),
                       schemaPath |-> message.schemaPath, badges |-> message.badges,
                       files |-> NoFiles])
         withBody == IF message.requestBody # ""
                     THEN AddFile(written, message.id, "request-body.json",
                                  message.requestBody, message.version)
                     ELSE written
         attached == AddFiles(withBody, message.id, ResponseFiles(message.responses),
                              message.version)
     IN  /\ catalog' = [catalog EXCEPT ![collection] = attached]
         /\ calls' = calls
              \o <<Call("getMessage", collection, message.id, 0)>>
              \o (IF mustVersion
                  THEN <<Call("versionMessage", collection, message.id, catalogedMessage.version)>>
                  ELSE <<>>)
              \o <<Call("writeMessage", collection, message.id, message.version)>>
              \o (IF message.requestBody # ""
                  THEN <<Call("addFileToMessage", collection, message.id, message.version)>>
                  ELSE <<>>)
              \o [i \in 1 .. Cardinality(DOMAIN message.responses) |->
                    Call("addFileToMessage", collection, message.id, message.version)]
         /\ sends' = IF Bucket(operation.action) = "sends"
                     THEN Append(sends, Ref(message.id, message.version)) ELSE sends
         /\ receives' = IF Bucket(operation.action) = "sends"
                        THEN receives ELSE Append(receives, Ref(message.id, message.version))
  /\ operationIndex' = operationIndex + 1
  /\ UNCHANGED <<pc, runs, options, specIndex, latestServiceInCatalog,
                 serviceSpecificationsFiles, pre, previousRun,
                 env, PROJECT_DIR, thrown>>

\* buildMessage throws for the operation: nothing catches the TypeError in
\* processMessagesForOpenAPISpec or in the loop over the specs, and the run ends.
BuildMessageFails ==
  /\ pc = "messages"
  /\ operationIndex <= Len(operations)
  /\ buildMessageThrows(document, operations[operationIndex])
  /\ thrown' = TRUE
  /\ pc' = "idle"
  /\ UNCHANGED <<catalog, runs, options, specIndex, operationIndex, sends, receives,
                 latestServiceInCatalog, serviceSpecificationsFiles, pre, previousRun, calls,
                 env, PROJECT_DIR>>

\* A slip of the service block: the generated markdown is written.
MarkdownToWrite_Generated(latest, built) == built.markdown

\* The service block: what is carried over from the cataloged latest service.
MarkdownToWrite(latest, built) ==
  IF latest # Nil THEN latest.markdown ELSE built.markdown

\* A slip of the service block: the sends derived from the spec are written.
SendsToWrite_Derived(latest, derived) == derived

SendsToWrite(latest, derived) ==
  IF latest # Nil THEN latest.sends ELSE derived

\* The service block before 3.1.0: the owners are not carried over.
OwnersToWrite_None(latest) == <<>>

OwnersToWrite(latest) == IF latest # Nil THEN latest.owners ELSE <<>>

RepositoryToWrite(latest) == IF latest # Nil THEN latest.repository ELSE ""

\* "persist any specifications that are already in the catalog"
SpecificationsToWrite(latest, built) ==
  IF latest # Nil THEN Spread(built.specifications, latest.specifications)
  ELSE built.specifications

\* A slip of the service block: only a greater declared version archives.
MustVersionService_Greater(latest, version) == latest # Nil /\ version > latest.version

\* "Found a service, and versions do not match, we need to version the one
\* already there"
MustVersionService(latest, version) == latest # Nil /\ latest.version # version

\* A slip of the service block: the cataloged receives are forgotten.
ReceivesToWrite_Derived(latest, derived, version) == derived

\* "Match found, override it"
ReceivesToWrite(latest, derived, version) ==
  IF latest # Nil /\ latest.version = version THEN latest.receives \o derived
  ELSE derived

\* The loop of processMessagesForOpenAPISpec is over: getService, the merge,
\* versionService and writeService.
ReconcileService ==
  /\ pc = "messages"
  /\ operationIndex > Len(operations)
  /\ LET version == document.info.version
         latest == GetLatest(catalog["services"], service.id)
         mustVersion == MustVersionService(latest, version)
         versioned == IF mustVersion THEN VersionResource(catalog["services"], service.id)
                      ELSE catalog["services"]
         written == WriteService(versioned,
                      [id |-> service.id, version |-> service.version, loc |-> "current",
                       name |-> service.name, summary |-> service.summary,
                       schemaPath |-> service.schemaPath,
                       specifications |-> SpecificationsToWrite(latest, service),
                       markdown |-> MarkdownToWrite(latest, service),
                       badges |-> service.badges,
                       sends |-> SendsToWrite(latest, sends),
                       receives |-> ReceivesToWrite(latest, receives, version),
                       owners |-> OwnersToWrite(latest),
                       repository |-> RepositoryToWrite(latest),
                       files |-> NoFiles])
     IN  /\ latestServiceInCatalog' = latest
         /\ serviceSpecificationsFiles' =
              IF latest # Nil THEN GetSpecificationFiles(catalog["services"], service.id)
              ELSE NoFiles
         /\ catalog' = [catalog EXCEPT !["services"] = written]
         /\ calls' = calls
              \o <<Call("getService", "services", service.id, 0)>>
              \o (IF mustVersion
                  THEN <<Call("versionService", "services", service.id, latest.version)>>
                  ELSE <<>>)
              \o <<Call("writeService", "services", service.id, service.version)>>
  /\ pc' = "files"
  /\ UNCHANGED <<runs, options, specIndex, operationIndex, sends, receives, pre,
                 previousRun,
                 env, PROJECT_DIR, thrown>>

\* getRawSpecFile: the text of the file, read or fetched, as it is at the time
\* of the run.
getRawSpecFile(spec) == [file |-> spec.path, version |-> spec.version]

\* getParsedSpecFile: the dereferenced document, as JSON or as YAML.
getParsedSpecFile(spec, doc) ==
  [format |-> IF IsSpecFileJSON(spec.path) THEN "JSON.stringify" ELSE "yaml.dump",
   document |-> doc]

\* A slip of the spec files: the option is ignored and the raw file attached.
SpecFileContent_Raw(spec, doc, saveParsedSpecFile) == getRawSpecFile(spec)

\* content: saveParsedSpecFile ? getParsedSpecFile(...) : await getRawSpecFile(...)
SpecFileContent(spec, doc, saveParsedSpecFile) ==
  IF saveParsedSpecFile THEN getParsedSpecFile(spec, doc) ELSE getRawSpecFile(spec)

AttachSpecFiles ==
  /\ pc = "files"
  /\ LET version == document.info.version
         previous == AddFiles(catalog["services"], service.id,
                              serviceSpecificationsFiles, version)
     IN  catalog' = [catalog EXCEPT !["services"] =
                       AddFile(previous, service.id, service.schemaPath,
                               SpecFileContent(serviceSpec, document,
                                               options.saveParsedSpecFile),
                               version)]
  /\ NextSpec
  /\ UNCHANGED <<runs, options, operationIndex, sends, receives,
                 latestServiceInCatalog, serviceSpecificationsFiles, pre, previousRun, calls,
                 env, PROJECT_DIR, thrown>>

\* getRawSpecFile fetches the spec and the answer is not ok: "Failed to fetch
\* file" is thrown while the list of spec files is built, nothing catches it and
\* the run ends.
FetchFails ==
  /\ pc = "files"
  /\ ~options.saveParsedSpecFile
  /\ IsRemote(serviceSpec.path)
  /\ thrown' = TRUE
  /\ pc' = "idle"
  /\ UNCHANGED <<catalog, runs, options, specIndex, operationIndex, sends, receives,
                 latestServiceInCatalog, serviceSpecificationsFiles, pre, previousRun, calls,
                 env, PROJECT_DIR>>

Next ==
  \/ StartRun
  \/ ValidationFails
  \/ ValidationPasses
  \/ ManageDomain
  \/ ProcessMessage
  \/ BuildMessageFails
  \/ ReconcileService
  \/ AttachSpecFiles
  \/ FetchFails

Spec == Init /\ [][Next]_vars

---------------------------------------------------------------------------
(* Properties.                                                             *)

\* A run has ended.
RunDone == pc = "idle" /\ runs > 0

\* The specs of the run that pass validation and whose service the loop came to
\* write (a run that throws stops at specIndex, in the loop over the operations
\* or after it), and what is built from them.
ProcessedSpecs ==
  {options.services[k] : k \in {k \in 1 .. Len(options.services) :
     /\ options.services[k].valid
     /\ thrown =>
          \/ k < specIndex
          \/ k = specIndex /\ operationIndex > Len(operations)}}

DocumentOf(spec) == Document(spec.path, spec.version)

ServiceOf(spec) == buildService(spec, DocumentOf(spec))

\* The messages of a spec, each with the collection of its type and its action.
MessagesOf(spec) ==
  LET ops == getOperationsByType(DocumentOf(spec))
  IN  {[collection |-> getMessageTypeUtils(ops[k].type), action |-> ops[k].action,
        message |-> buildMessage(DocumentOf(spec), ops[k])] : k \in 1 .. Len(ops)}

IsArchived(entries, id, version) ==
  \E e \in entries : e.id = id /\ e.version = version /\ e.loc = "versioned"

MessageCollections == {"events", "commands", "queries"}

\* C1: the current record of every service and message that had a current
\* record when the run started carries the markdown of that record, at every
\* step of the run: what the run writes for the id never carries other markdown.
C1_MarkdownPreserved ==
  \A c \in MessageCollections \cup {"services"} :
    \A e \in pre[c] :
      e.loc = "current" =>
        /\ GetLatest(catalog[c], e.id) # Nil
        /\ GetLatest(catalog[c], e.id).markdown = e.markdown

\* C1's case: a run rewrote, at another version and with other metadata, a service
\* and a message whose cataloged markdown is not what the generator would write.
C1_Witness ==
  /\ RunDone
  /\ \E spec \in ProcessedSpecs :
       LET before == GetLatest(pre["services"], ServiceOf(spec).id)
           now == GetLatest(catalog["services"], ServiceOf(spec).id)
       IN  /\ before # Nil
           /\ before.version # ServiceOf(spec).version
           /\ before.markdown # ServiceOf(spec).markdown
           /\ now.version = ServiceOf(spec).version
           /\ now.name # before.name
           /\ \E m \in MessagesOf(spec) :
                LET old == GetLatest(pre[m.collection], m.message.id)
                IN  /\ old # Nil
                    /\ old.markdown = UserMarkdown
                    /\ old.version # m.message.version
                    /\ GetLatest(catalog[m.collection], m.message.id).version
                         = m.message.version

\* The run called `name` of the collection for the id.
Called(name, collection, id) ==
  \E k \in 1 .. Len(calls) :
    calls[k].call = name /\ calls[k].collection = collection /\ calls[k].id = id

\* C2: when the latest cataloged version of a service or message differs from
\* the version the spec declares for it, then after the run the previous version
\* is an archived record and the declared version is the current record.
C2_Versioning ==
  RunDone =>
    \A spec \in ProcessedSpecs :
      /\ LET before == GetLatest(pre["services"], ServiceOf(spec).id)
         IN  (before # Nil /\ before.version # ServiceOf(spec).version) =>
               /\ IsArchived(catalog["services"], before.id, before.version)
               /\ GetLatest(catalog["services"], before.id) # Nil
               /\ GetLatest(catalog["services"], before.id).version = ServiceOf(spec).version
      /\ \A m \in MessagesOf(spec) :
           LET before == GetLatest(pre[m.collection], m.message.id)
           IN  (before # Nil /\ before.version # m.message.version) =>
                 /\ IsArchived(catalog[m.collection], before.id, before.version)
                 /\ GetLatest(catalog[m.collection], before.id) # Nil
                 /\ GetLatest(catalog[m.collection], before.id).version = m.message.version

\* C3: when the latest cataloged version of a service or message is the version
\* the spec declares for it, then after the run the record at that id and version
\* has the name, summary and badges derived from the spec and the cataloged
\* markdown, and nothing was archived for the id.
C3_UpdateInPlace ==
  RunDone =>
    \A spec \in ProcessedSpecs :
      /\ LET before == GetLatest(pre["services"], ServiceOf(spec).id)
             built == ServiceOf(spec)
         IN  (before # Nil /\ before.version = built.version) =>
               /\ \E e \in catalog["services"] :
                    /\ e.id = built.id /\ e.version = built.version
                    /\ e.name = built.name /\ e.summary = built.summary
                    /\ e.badges = built.badges /\ e.markdown = before.markdown
               /\ ~Called("versionService", "services", built.id)
      /\ \A m \in MessagesOf(spec) :
           LET before == GetLatest(pre[m.collection], m.message.id)
           IN  (before # Nil /\ before.version = m.message.version) =>
                 /\ \E e \in catalog[m.collection] :
                      /\ e.id = m.message.id /\ e.version = m.message.version
                      /\ e.name = m.message.name /\ e.summary = m.message.summary
                      /\ e.badges = m.message.badges /\ e.markdown = before.markdown
                 /\ ~Called("versionMessage", m.collection, m.message.id)

\* The identity of the records of a collection.
Keys(entries) == {[id |-> e.id, version |-> e.version, loc |-> e.loc] : e \in entries}

\* The run is the second of two runs with the same options from an empty catalog,
\* both of which came to their end.
SecondRunOfTwo ==
  /\ RunDone
  /\ ~thrown
  /\ previousRun # Nil
  /\ ~previousRun.thrown
  /\ previousRun.pre = EmptyCatalog
  /\ previousRun.options = options

\* C4: the second of two runs on the same spec from an empty catalog creates no
\* record and archives nothing; each id and version is one current record, and
\* every record is as the first run left it, the services list of the domain aside.
C4_Idempotence ==
  SecondRunOfTwo =>
    /\ \A k \in 1 .. Len(calls) :
         calls[k].call \notin {"versionDomain", "versionService", "versionMessage"}
    /\ \A c \in Collections :
         /\ Keys(catalog[c]) = Keys(pre[c])
         /\ \A e \in catalog[c] : e.loc = "current"
    /\ \A c \in Collections \ {"domains"} : catalog[c] = pre[c]
    /\ \A e \in catalog["domains"] :
         \E d \in pre["domains"] : [e EXCEPT !.services = d.services] = d

\* The entries of a list that no earlier entry matches, in their order.
KeepFirst(list, Same(_, _)) ==
  LET keep == {k \in 1 .. Len(list) : ~\E j \in 1 .. (k - 1) : Same(list[j], list[k])}
  IN  [i \in 1 .. Cardinality(keep) |->
         list[CHOOSE k \in keep : Cardinality({j \in keep : j <= k}) = i]]

\* The references the operations of a document put into a bucket of the service.
RECURSIVE BucketOf(_, _, _)
BucketOf(doc, ops, bucket) ==
  IF ops = <<>> THEN <<>>
  ELSE (IF (Head(ops).action = "sends") = (bucket = "sends")
        THEN <<Ref(buildMessage(doc, Head(ops)).id, buildMessage(doc, Head(ops)).version)>>
        ELSE <<>>)
         \o BucketOf(doc, Tail(ops), bucket)

Derived(bucket) == BucketOf(document, getOperationsByType(document), bucket)

\* The service block of the spec in progress has just written the service.
ServiceWritten == pc = "files"

WrittenService == GetLatest(catalog["services"], service.id)

SameVersionAsCataloged ==
  latestServiceInCatalog # Nil /\ latestServiceInCatalog.version = service.version

ServiceBefore(spec) == GetLatest(pre["services"], ServiceOf(spec).id)

ServiceAfter(spec) == GetLatest(catalog["services"], ServiceOf(spec).id)

\* C6: when the service is cataloged already, the sends of the service the run
\* writes are the sends of the cataloged latest service, whether the declared
\* version is the cataloged one or not.
C6_SendsCarriedOver ==
  RunDone =>
    \A spec \in ProcessedSpecs :
      ServiceBefore(spec) # Nil => ServiceAfter(spec).sends = ServiceBefore(spec).sends

\* C6's case: a cataloged service with sends was archived and rewritten from a
\* spec that marks another message as sent.
C6_Witness ==
  /\ RunDone
  /\ \E spec \in ProcessedSpecs :
       /\ ServiceBefore(spec) # Nil
       /\ ServiceBefore(spec).sends # <<>>
       /\ ServiceBefore(spec).version # ServiceOf(spec).version
       /\ ServiceAfter(spec).version = ServiceOf(spec).version
       /\ \E m \in MessagesOf(spec) :
            /\ m.action = "sends"
            /\ Ref(m.message.id, m.message.version) \notin SeqToSet(ServiceBefore(spec).sends)

\* C7: after a run the message of every operation marked as sent is in the sends
\* of the written service and not in its receives, and the message of every
\* other operation is in its receives.
C7_DirectionalBucketing ==
  RunDone =>
    \A spec \in ProcessedSpecs :
      \A m \in MessagesOf(spec) :
        LET ref == Ref(m.message.id, m.message.version)
        IN  IF m.action = "sends"
            THEN /\ ref \in SeqToSet(ServiceAfter(spec).sends)
                 /\ ref \notin SeqToSet(ServiceAfter(spec).receives)
            ELSE ref \in SeqToSet(ServiceAfter(spec).receives)

\* C8: the specifications of the written service keep every cataloged key other
\* than openapiPath with its cataloged value, and openapiPath names the spec file
\* of this run.
C8_SpecificationsMerged ==
  RunDone =>
    \A spec \in ProcessedSpecs :
      /\ ServiceBefore(spec) # Nil =>
           \A k \in DOMAIN ServiceBefore(spec).specifications \ {"openapiPath"} :
             /\ k \in DOMAIN ServiceAfter(spec).specifications
             /\ ServiceAfter(spec).specifications[k] = ServiceBefore(spec).specifications[k]
      /\ "openapiPath" \in DOMAIN ServiceAfter(spec).specifications
      /\ ServiceAfter(spec).specifications["openapiPath"] = spec.path

\* C9: when the service is cataloged with owners and a repository, the service
\* the run writes has these owners and this repository, whether the declared
\* version is the cataloged one or the previous version is archived.
C9_OwnersAndRepositoryCarriedOver ==
  RunDone =>
    \A spec \in ProcessedSpecs :
      (/\ ServiceBefore(spec) # Nil
       /\ ServiceBefore(spec).owners # <<>>
       /\ ServiceBefore(spec).repository # "") =>
        /\ ServiceAfter(spec).owners = ServiceBefore(spec).owners
        /\ ServiceAfter(spec).repository = ServiceBefore(spec).repository

\* C9's case: a service cataloged with owners and a repository was archived and
\* a new version written.
C9_Witness ==
  /\ RunDone
  /\ \E spec \in ProcessedSpecs :
       /\ ServiceBefore(spec) # Nil
       /\ ServiceBefore(spec).owners # <<>>
       /\ ServiceBefore(spec).repository # ""
       /\ ServiceBefore(spec).version # ServiceOf(spec).version
       /\ Called("versionService", "services", ServiceOf(spec).id)
       /\ ServiceAfter(spec).version = ServiceOf(spec).version

\* C10: with a domain configured, a latest domain of another version is archived;
\* a domain missing at the configured version is created with the configured id,
\* name and version and the default markdown; a domain cataloged at the
\* configured version is not rewritten; and every processed service is in the
\* services of the domain at the configured version.
C10_DomainReconciled ==
  (RunDone /\ options.domain # Nil /\ ProcessedSpecs # {}) =>
    LET id == options.domain.id
        version == options.domain.version
        latestBefore == GetLatest(pre["domains"], id)
        before == GetVersion(pre["domains"], id, version)
        after == GetVersion(catalog["domains"], id, version)
    IN  /\ (latestBefore # Nil /\ latestBefore.version # version) =>
             IsArchived(catalog["domains"], id, latestBefore.version)
        /\ after # Nil
        /\ before = Nil =>
             /\ after.name = options.domain.name
             /\ after.markdown = generateMarkdownForDomain
             /\ Called("writeDomain", "domains", id)
        /\ before # Nil =>
             /\ after.name = before.name
             /\ after.markdown = before.markdown
             /\ ~Called("writeDomain", "domains", id)
             /\ \A ref \in SeqToSet(before.services) : ref \in SeqToSet(after.services)
        /\ \A spec \in ProcessedSpecs :
             Ref(ServiceOf(spec).id, ServiceOf(spec).version) \in SeqToSet(after.services)

\* C10's case: the latest domain had another version and none existed at the
\* configured version: the run archived the one and created the other.
C10_Witness ==
  /\ RunDone
  /\ options.domain # Nil
  /\ ProcessedSpecs # {}
  /\ GetLatest(pre["domains"], options.domain.id) # Nil
  /\ GetLatest(pre["domains"], options.domain.id).version # options.domain.version
  /\ GetVersion(pre["domains"], options.domain.id, options.domain.version) = Nil
  /\ IsArchived(catalog["domains"], options.domain.id,
                GetLatest(pre["domains"], options.domain.id).version)
  /\ GetLatest(catalog["domains"], options.domain.id).version = options.domain.version

\* The elements of a sequence that satisfy a test, in their order.
RECURSIVE SelectRefs(_, _)
SelectRefs(list, wanted) ==
  IF list = <<>> THEN <<>>
  ELSE (IF Head(list) \in wanted THEN <<Head(list)>> ELSE <<>>) \o SelectRefs(Tail(list), wanted)

\* The references of the services of the run's valid specs, in configuration order.
RECURSIVE ProcessedRefs(_)
ProcessedRefs(specs) ==
  IF specs = <<>> THEN <<>>
  ELSE (IF Head(specs).valid
        THEN <<Ref(ServiceOf(Head(specs)).id, ServiceOf(Head(specs)).version)>> ELSE <<>>)
         \o ProcessedRefs(Tail(specs))

\* The references the run asked addServiceToDomain to add, in the order of the calls.
RECURSIVE AddedToDomain(_)
AddedToDomain(cs) ==
  IF cs = <<>> THEN <<>>
  ELSE (IF Head(cs).call = "addServiceToDomain" THEN <<Head(cs).arg>> ELSE <<>>)
         \o AddedToDomain(Tail(cs))

\* The services of the configured domain at the configured version, in a catalog.
DomainServices(cat) ==
  LET domain == GetVersion(cat["domains"], options.domain.id, options.domain.version)
  IN  IF domain = Nil THEN <<>> ELSE domain.services

CollectionOfType(xType) ==
  IF xType = "event" THEN "events"
  ELSE IF xType = "command" THEN "commands"
  ELSE "queries"

\* The calls a step has added to the history.
NewCalls == SubSeq(calls', Len(calls) + 1, Len(calls'))

RECURSIVE Underscored(_)
Underscored(path) ==
  IF path = <<>> THEN <<>>
  ELSE Head(path) \o (IF Tail(path) = <<>> THEN <<>> ELSE <<"_">> \o Underscored(Tail(path)))

\* <slugified title>_<METHOD>, then _<path remainder> when there is one.
FallbackId(title, method, path) ==
  <<Slugify(title), "_", ToUpperCase(method)>>
    \o (IF Underscored(path) # <<>> THEN <<"_">> \o Underscored(path) ELSE <<>>)

\* The operations of a spec that have neither an operationId nor an id override.
UnnamedOps(spec) ==
  {k \in 1 .. Len(DocumentOf(spec).paths) :
     DocumentOf(spec).paths[k].operationId = "" /\ DocumentOf(spec).paths[k].xId = ""}

\* The ids of the entries of a collection.
Ids(entries) == {e.id : e \in entries}

\* C13: after a run, the message of every operation without operationId and
\* without id override is cataloged under <slugified title>_<METHOD>, followed
\* by _<path remainder> when the remainder is not empty; a run of the same
\* options after one that came to its end brings no other message id into the
\* catalog.
C13_FallbackId ==
  RunDone =>
    /\ \A spec \in ProcessedSpecs :
         \A k \in UnnamedOps(spec) :
           LET raw == DocumentOf(spec).paths[k]
               id == FallbackId(DocumentOf(spec).info.title, raw.method, raw.path)
           IN  /\ GetLatest(catalog[CollectionOfType(raw.xType)], id) # Nil
               /\ Called("writeMessage", CollectionOfType(raw.xType), id)
    /\ (previousRun # Nil /\ previousRun.options = options /\ ~previousRun.thrown) =>
         \A c \in MessageCollections : Ids(catalog[c]) = Ids(pre[c])

\* C13's case: the product API was run twice; its messages are cataloged under
\* product-api_GET and product-api_GET_products_{productId}.
C13_Witness ==
  /\ RunDone
  /\ previousRun # Nil
  /\ previousRun.options = options
  /\ \E spec \in ProcessedSpecs : UnnamedOps(spec) # {}
  /\ GetLatest(catalog["queries"], <<"product-api", "_", "GET">>) # Nil
  /\ GetLatest(catalog["queries"],
               <<"product-api", "_", "GET", "_", "products", "_", "{productId}">>) # Nil

\* The message the run builds for the k-th operation of a spec.
MessageOfOp(spec, k) == buildMessage(DocumentOf(spec), Operation(DocumentOf(spec).paths[k]))

\* C14: two operations of one document that differ in path or method and are of
\* the same kind and version never have the same message id; the run then
\* leaves one current record per operation.
C14_MessageIdsUnique ==
  RunDone =>
    \A spec \in ProcessedSpecs :
      \A k, l \in 1 .. Len(DocumentOf(spec).paths) :
        LET a == DocumentOf(spec).paths[k]
            b == DocumentOf(spec).paths[l]
        IN  (/\ k # l
             /\ (a.path # b.path \/ a.method # b.method)
             /\ CollectionOfType(a.xType) = CollectionOfType(b.xType)
             /\ MessageOfOp(spec, k).version = MessageOfOp(spec, l).version) =>
              MessageOfOp(spec, k).id # MessageOfOp(spec, l).id

\* The identifier, id, name and version an operation of a document stands for.
IdentifierOf(doc, raw) ==
  IF raw.operationId # "" THEN <<raw.operationId>>
  ELSE FallbackId(doc.info.title, raw.method, raw.path)

IdOf(doc, raw) == IF raw.xId # "" THEN <<raw.xId>> ELSE IdentifierOf(doc, raw)

NameOf(doc, raw) == IF raw.xName # "" THEN <<raw.xName>> ELSE IdentifierOf(doc, raw)

VersionOf(doc, raw) == IF raw.xVersion # 0 THEN raw.xVersion ELSE doc.info.version

\* The references of the operations of a document that are sent (or not).
RefsOf(doc, sent) ==
  {Ref(IdOf(doc, doc.paths[k]), VersionOf(doc, doc.paths[k])) :
     k \in {k \in 1 .. Len(doc.paths) : (doc.paths[k].xAction = "sends") = sent}}

\* C15: once an operation is reconciled, the current record of its id (the id
\* override, else the operationId or fallback identifier) has its name (the name
\* override, else that identifier) and its version (the version override, else
\* the document's), and the reference noted for the service is that id and
\* version; the references the service is written with are these or cataloged.
C15_Overrides ==
  /\ (pc = "messages" /\ operationIndex > 1) =>
       LET raw == document.paths[operationIndex - 1]
           record == GetLatest(catalog[CollectionOfType(raw.xType)], IdOf(document, raw))
           noted == IF raw.xAction = "sends" THEN sends ELSE receives
       IN  /\ record # Nil
           /\ record.name = NameOf(document, raw)
           /\ record.version = VersionOf(document, raw)
           /\ noted # <<>>
           /\ noted[Len(noted)] = Ref(IdOf(document, raw), VersionOf(document, raw))
           /\ Len(sends) + Len(receives) = operationIndex - 1
  /\ ServiceWritten =>
       /\ RefsOf(document, FALSE) \subseteq SeqToSet(WrittenService.receives)
       /\ SeqToSet(WrittenService.receives) \subseteq
            RefsOf(document, FALSE) \cup
              (IF latestServiceInCatalog = Nil THEN {}
               ELSE SeqToSet(latestServiceInCatalog.receives))
       /\ SeqToSet(WrittenService.sends) \subseteq
            RefsOf(document, TRUE) \cup
              (IF latestServiceInCatalog = Nil THEN {}
               ELSE SeqToSet(latestServiceInCatalog.sends))

\* C15's case: an operation that overrides id, name and version, the version
\* unlike the document's, has been reconciled over a cataloged record.
C15_Witness ==
  /\ pc = "messages"
  /\ operationIndex > 1
  /\ LET raw == document.paths[operationIndex - 1]
     IN  /\ raw.xId # ""
         /\ raw.xName # ""
         /\ raw.xVersion # 0
         /\ raw.xVersion # document.info.version
         /\ GetLatest(pre[CollectionOfType(raw.xType)], <<raw.xId>>) # Nil
         /\ GetLatest(catalog[CollectionOfType(raw.xType)], <<raw.xId>>).version = raw.xVersion

\* The number of calls of a primitive in the run.
CallCount(name) == Cardinality({k \in 1 .. Len(calls) : calls[k].call = name})

\* The number of operations of the valid specs among the given ones.
RECURSIVE OperationCount(_)
OperationCount(specs) ==
  IF specs = <<>> THEN 0
  ELSE (IF Head(specs).valid THEN Len(DocumentOf(Head(specs)).paths) ELSE 0)
         + OperationCount(Tail(specs))

\* The entries of an id in a collection.
EntriesOf(entries, id) == {e \in entries : e.id = id}

\* C16: a spec that fails validation leaves no trace: no call is made for its
\* service, its service's entries are what they were, the run writes one
\* service per valid spec and one message per operation of the valid specs; and
\* the valid specs configured after it are written.
C16_InvalidSpecSkipped ==
  RunDone =>
    /\ \A k \in 1 .. Len(options.services) :
         ~options.services[k].valid =>
           LET id == options.services[k].id
           IN  /\ \A i \in 1 .. Len(calls) :
                    /\ ~(calls[i].collection = "services" /\ calls[i].id = id)
                    /\ ~(calls[i].call = "addServiceToDomain" /\ calls[i].arg.id = id)
               /\ EntriesOf(catalog["services"], id) = EntriesOf(pre["services"], id)
               /\ \A l \in k + 1 .. Len(options.services) :
                    (options.services[l].valid /\ ~thrown) =>
                      /\ Called("writeService", "services", options.services[l].id)
                      /\ GetLatest(catalog["services"], options.services[l].id) # Nil
    /\ ~thrown =>
         /\ CallCount("writeService") = Cardinality(ProcessedSpecs)
         /\ CallCount("writeMessage") = OperationCount(options.services)
         /\ CallCount("getMessage") = OperationCount(options.services)
    /\ (\A k \in 1 .. Len(options.services) : ~options.services[k].valid) =>
         catalog = pre /\ calls = <<>>

\* C16's case: the first of two specs failed validation and the second was
\* written.
C16_Witness ==
  /\ RunDone
  /\ Len(options.services) = 2
  /\ ~options.services[1].valid
  /\ options.services[2].valid
  /\ Called("writeService", "services", options.services[2].id)
  /\ GetLatest(catalog["services"], options.services[1].id) = Nil

\* Options the generator is not to accept: a service without id or path.
Malformed(opts) ==
  \E k \in 1 .. Len(opts.services) : opts.services[k].id = "" \/ opts.services[k].path = ""

\* C17: a run called without PROJECT_DIR or with malformed options throws at
\* once: it ends with an error after no call, and the catalog is as it was.
C17_ConfigurationErrorsFatal ==
  (runs > 0 /\ (env = "" \/ Malformed(options))) =>
    /\ thrown
    /\ pc = "idle"
    /\ calls = <<>>
    /\ catalog = pre

\* The file attached to the service of a spec under a name, after the run.
AttachedFile(spec, name) ==
  LET written == GetVersion(catalog["services"], ServiceOf(spec).id, ServiceOf(spec).version)
  IN  IF written # Nil /\ name \in DOMAIN written.files THEN written.files[name] ELSE Nil

\* C18: after a run that did not throw, the file attached to the service under
\* the base name of the spec's path is the source as read or fetched when
\* saveParsedSpecFile is false, and the dereferenced document, as JSON for a
\* path ending in .json and as YAML otherwise, when it is true.
C18_SpecFileContent ==
  (RunDone /\ ~thrown) =>
    \A spec \in ProcessedSpecs :
      LET name == IF spec.path = RemotePath THEN "openapi.yml" ELSE spec.path
      IN  /\ ServiceAfter(spec).schemaPath = name
          /\ AttachedFile(spec, name) =
               IF options.saveParsedSpecFile
               THEN [format |-> IF spec.path = "petstore.json" THEN "JSON.stringify"
                                ELSE "yaml.dump",
                     document |-> DocumentOf(spec)]
               ELSE [file |-> spec.path, version |-> spec.version]

\* C18's case: runs over the same service have attached the dereferenced JSON
\* spec and, without saveParsedSpecFile, the raw YAML spec.
C18_Witness ==
  /\ RunDone
  /\ ~thrown
  /\ \E spec \in ProcessedSpecs :
       /\ AttachedFile(spec, "petstore.json") # Nil
       /\ AttachedFile(spec, "petstore.json") =
            [format |-> "JSON.stringify", document |-> Document("petstore.json", 1)]
       /\ AttachedFile(spec, "petstore.yml") = [file |-> "petstore.yml", version |-> 1]
       /\ ~options.saveParsedSpecFile

\* The ids of the services written by the run, in the order of the calls.
RECURSIVE WrittenServices(_)
WrittenServices(cs) ==
  IF cs = <<>> THEN <<>>
  ELSE (IF Head(cs).call = "writeService" THEN <<Head(cs).id>> ELSE <<>>)
         \o WrittenServices(Tail(cs))

\* The ids of the services of the valid specs, in configuration order.
RECURSIVE ValidServices(_)
ValidServices(specs) ==
  IF specs = <<>> THEN <<>>
  ELSE (IF Head(specs).valid THEN <<ServiceOf(Head(specs)).id>> ELSE <<>>)
         \o ValidServices(Tail(specs))

\* C19: a run that has started ends without an error, having written the
\* service of every spec that passed validation, in configuration order, and
\* attached its spec file.
C19_EverySpecProcessed ==
  RunDone =>
    /\ ~thrown
    /\ WrittenServices(calls) = ValidServices(options.services)
    /\ \A spec \in ProcessedSpecs :
         AttachedFile(spec, ServiceOf(spec).schemaPath) # Nil

\* What a call does and to which id; the id of a service is held, like that of
\* a message, as a sequence of pieces.
Step(name, id) ==
  [call |-> name, id |-> IF name \in {"getService", "writeService"} THEN <<id>> ELSE id]

\* The lookups and writes of services and messages among the calls, in order.
RECURSIVE LookupsAndWrites(_)
LookupsAndWrites(cs) ==
  IF cs = <<>> THEN <<>>
  ELSE (IF Head(cs).call \in {"getService", "writeService", "getMessage", "writeMessage"}
        THEN <<Step(Head(cs).call, Head(cs).id)>> ELSE <<>>)
         \o LookupsAndWrites(Tail(cs))

\* The lookup and the write of the message of each operation, in the order of
\* the document.
RECURSIVE MessageSteps(_, _)
MessageSteps(doc, paths) ==
  IF paths = <<>> THEN <<>>
  ELSE <<Step("getMessage", IdOf(doc, Head(paths))), Step("writeMessage", IdOf(doc, Head(paths)))>>
         \o MessageSteps(doc, Tail(paths))

ServiceSteps(spec) ==
  <<Step("getService", ServiceOf(spec).id), Step("writeService", ServiceOf(spec).id)>>

\* The steps of a run over the specs, the service of a spec before its messages
\* or after them.
RECURSIVE RunSteps(_, _)
RunSteps(specs, serviceFirst) ==
  IF specs = <<>> THEN <<>>
  ELSE (IF ~Head(specs).valid THEN <<>>
        ELSE IF serviceFirst
        THEN ServiceSteps(Head(specs))
               \o MessageSteps(DocumentOf(Head(specs)), DocumentOf(Head(specs)).paths)
        ELSE MessageSteps(DocumentOf(Head(specs)), DocumentOf(Head(specs)).paths)
               \o ServiceSteps(Head(specs)))
         \o RunSteps(Tail(specs), serviceFirst)

IsPrefix(a, b) == Len(a) <= Len(b) /\ SubSeq(b, 1, Len(a)) = a

\* C20 as stated: at every moment of a run, what it has looked up and written so
\* far is the beginning of: spec by spec in configuration order, the service
\* looked up and written, then the messages of its operations, one after the
\* other in extraction order.
C20_ServiceBeforeOperations ==
  runs > 0 => IsPrefix(LookupsAndWrites(calls), RunSteps(options.services, TRUE))

\* C20 amended: at every moment of a run, what it has looked up and written so
\* far is the beginning of: spec by spec in configuration order, the messages of
\* its operations, one after the other in extraction order, then the service
\* looked up and written; a run that ends without error has done all of it.
C20_OperationsBeforeService ==
  runs > 0 =>
    /\ IsPrefix(LookupsAndWrites(calls), RunSteps(options.services, FALSE))
    /\ (RunDone /\ ~thrown) => LookupsAndWrites(calls) = RunSteps(options.services, FALSE)

\* C20's case: a run over two valid specs has written the messages of the
\* second spec and is about to look its service up.
C20_Witness ==
  /\ pc = "messages"
  /\ specIndex = 2
  /\ options.services[1].valid
  /\ operationIndex > Len(operations)
  /\ Len(operations) > 1
  /\ Called("writeService", "services", options.services[1].id)
  /\ ~Called("getService", "services", options.services[2].id)

---------------------------------------------------------------------------
\* The keys of a path item that are operations: the HTTP verbs of OpenAPI.
HttpVerbs == {"get", "put", "post", "delete", "options", "head", "patch", "trace"}

\* The (path, HTTP verb) pairs of a document, in the order of their declaration.
IsVerb(entry) == entry.method \in HttpVerbs

PathVerbPairs(doc) == SelectSeq(doc.paths, IsVerb)

\* C21: the operations extracted from the document of a spec the run has
\* processed are its (path, HTTP verb) pairs, one record each and none for
\* anything else under a path item, in the order of their declaration.
C21_OnePerPathAndVerb ==
  RunDone =>
    \A spec \in ProcessedSpecs :
      LET extracted == getOperationsByType(DocumentOf(spec))
          pairs == PathVerbPairs(DocumentOf(spec))
      IN  /\ Len(extracted) = Len(pairs)
          /\ \A k \in 1 .. Len(pairs) :
               /\ extracted[k].path = pairs[k].path
               /\ extracted[k].method = ToUpperCase(pairs[k].method)

\* The valid specs the loop of the run has come to.
ReachedSpecs ==
  {options.services[k] : k \in {k \in 1 .. Len(options.services) :
                                  options.services[k].valid /\ k <= specIndex}}

\* The names of the schema files of a message.
SchemaFileNames ==
  {"request-body.json"} \cup {ResponseFileName(statusCode) : statusCode \in {"200", "201", "204"}}

\* C22: once the run has ended, every operation of a spec it came to for which
\* the lookup of the schemas gave nothing has its message written, with empty
\* schemaPath and no schema file attached, and the operations after it have
\* their messages written too.
C22_SchemalessMessageWritten ==
  RunDone =>
    \A spec \in ReachedSpecs :
      LET doc == DocumentOf(spec)
          ops == getOperationsByType(doc)
      IN  \A k \in 1 .. Len(ops) :
            getSchemasByOperationId(doc, ops[k].operationId) = Nil =>
              LET collection == getMessageTypeUtils(ops[k].type)
                  written == GetLatest(catalog[collection], buildMessage(doc, ops[k]).id)
              IN  /\ Called("writeMessage", collection, buildMessage(doc, ops[k]).id)
                  /\ written # Nil
                  /\ written.schemaPath = ""
                  /\ DOMAIN written.files \cap SchemaFileNames = {}
                  /\ \A l \in k + 1 .. Len(ops) :
                       Called("writeMessage", getMessageTypeUtils(ops[l].type),
                              buildMessage(doc, ops[l]).id)

\* What the run prints about versions: " - Versioned previous domain / service /
\* message (v<version>)" after each archiving, and nothing else.
ConsoleLine(c) ==
  CASE c.call = "versionDomain" -> [line |-> "Versioned previous domain", version |-> c.version]
    [] c.call = "versionService" -> [line |-> "Versioned previous service", version |-> c.version]
    [] c.call = "versionMessage" -> [line |-> "Versioned previous message", version |-> c.version]
    [] OTHER -> Nil

ConsoleLines(cs) == {ConsoleLine(cs[k]) : k \in 1 .. Len(cs)} \ {Nil}

\* A report that the declared version is older than the cataloged one.
OlderVersionDetected(version) == [line |-> "older version detected", version |-> version]

\* C23 as stated: a cataloged service is archived only for a declared version
\* strictly greater than its own; when the declared version is not greater the
\* run goes on, writes the service and reports that an older version was detected.
C23_StrictlyGreaterVersion ==
  RunDone =>
    \A spec \in ProcessedSpecs :
      LET before == GetLatest(pre["services"], ServiceOf(spec).id)
          declared == ServiceOf(spec).version
      IN  before # Nil =>
            /\ Called("versionService", "services", before.id) => declared > before.version
            /\ ~(declared > before.version) =>
                 /\ GetLatest(catalog["services"], before.id) # Nil
                 /\ \E v \in Versions : OlderVersionDetected(v) \in ConsoleLines(calls)

\* C23 amended: the versions are compared for inequality.  A step that writes a
\* service or a message archives the cataloged latest record exactly when its
\* version differs from the version the document declares, greater or smaller,
\* and then prints that the previous version was versioned; the record is
\* written in either case and no older version is ever reported.
C23_VersionsComparedForInequality ==
  [][
      /\ (pc = "messages" /\ pc' = "files") =>
          LET latest == GetLatest(catalog["services"], service.id)
              differs == latest # Nil /\ latest.version # document.info.version
          IN  /\ differs <=>
                   \E i \in 1 .. Len(NewCalls) : NewCalls[i].call = "versionService"
              /\ differs =>
                   /\ IsArchived(catalog'["services"], service.id, latest.version)
                   /\ [line |-> "Versioned previous service", version |-> latest.version]
                        \in ConsoleLines(NewCalls)
              /\ GetLatest(catalog'["services"], service.id).version = document.info.version
      /\ (pc = "messages" /\ operationIndex' = operationIndex + 1) =>
          LET message == buildMessage(document, operations[operationIndex])
              collection == getMessageTypeUtils(operations[operationIndex].type)
              cataloged == GetLatest(catalog[collection], message.id)
              mismatch == cataloged # Nil /\ cataloged.version # document.info.version
          IN  /\ mismatch <=>
                   \E i \in 1 .. Len(NewCalls) : NewCalls[i].call = "versionMessage"
              /\ mismatch =>
                   /\ IsArchived(catalog'[collection], message.id, cataloged.version)
                   /\ [line |-> "Versioned previous message", version |-> cataloged.version]
                        \in ConsoleLines(NewCalls)
              /\ GetLatest(catalog'[collection], message.id) # Nil
      /\ \A v \in Versions : OlderVersionDetected(v) \notin ConsoleLines(calls')]_vars

\* C23's case: a run declared a version below the cataloged latest version of a
\* service: the run archived the greater version and the smaller one is current.
C23_Witness ==
  /\ RunDone
  /\ \E spec \in ProcessedSpecs :
       LET before == GetLatest(pre["services"], ServiceOf(spec).id)
       IN  /\ before # Nil
           /\ before.version > ServiceOf(spec).version
           /\ Called("versionService", "services", before.id)
           /\ IsArchived(catalog["services"], before.id, before.version)
           /\ GetLatest(catalog["services"], before.id).version = ServiceOf(spec).version

\* The spec files of a service are kept as the run of the spec should leave them:
\* those the cataloged latest service had when the run started are attached to
\* the service at the declared version with their content, the file named
\* schemaPath aside, which holds the OpenAPI file of this run.
SpecFilesKept(spec) ==
  LET built == ServiceOf(spec)
      previous == GetSpecificationFiles(pre["services"], built.id)
      after == GetVersion(catalog["services"], built.id, built.version)
  IN  /\ after # Nil
      /\ \A n \in DOMAIN previous \ {built.schemaPath} :
           n \in DOMAIN after.files /\ after.files[n] = previous[n]
      /\ built.schemaPath \in DOMAIN after.files
      /\ after.files[built.schemaPath]
           = SpecFileContent(spec, DocumentOf(spec), options.saveParsedSpecFile)

\* C24: after a run, for every spec whose service the run wrote, the spec files
\* of the cataloged latest service are attached to the service at the declared
\* version with the content they had, and the file named schemaPath holds the
\* OpenAPI file of this run.
C24_SpecFilesReattached ==
  RunDone => \A spec \in ProcessedSpecs : SpecFilesKept(spec)

\* C25: the catalog only grows: at every step of a run, every record (collection,
\* id, version) the catalog held when the run started is still in the catalog.
C25_CatalogOnlyGrows ==
  \A c \in Collections :
    \A e \in pre[c] :
      \E kept \in catalog[c] : kept.id = e.id /\ kept.version = e.version

\* The schemas the document declares for an entry of its paths.
SchemasOf(raw) == [requestBody |-> raw.body, responses |-> raw.responses]

\* C26: the step that reconciles an operation of the document leaves its
\* message with the schemas of that very operation: schemaPath names the request
\* body exactly when the operation has one, request-body.json and the
\* response-<status>.json files hold the operation's schemas and no other schema
\* file is attached in the step, and the markdown generated for a message that
\* was not cataloged has the sections of the operation's schemas.
C26_SchemasOfTheSameOperation ==
  [][(pc = "messages" /\ operationIndex' = operationIndex + 1
        /\ IsVerb(document.paths[operationIndex])) =>
       LET raw == document.paths[operationIndex]
           operation == operations[operationIndex]
           collection == getMessageTypeUtils(operation.type)
           id == buildMessage(document, operation).id
           cataloged == GetLatest(catalog[collection], id)
           written == GetLatest(catalog'[collection], id)
           attached == {i \in 1 .. Len(NewCalls) : NewCalls[i].call = "addFileToMessage"}
       IN  /\ written.schemaPath = (IF raw.body # "" THEN "request-body.json" ELSE "")
           /\ raw.body # "" =>
                /\ "request-body.json" \in DOMAIN written.files
                /\ written.files["request-body.json"] = raw.body
           /\ \A statusCode \in DOMAIN raw.responses :
                /\ ResponseFileName(statusCode) \in DOMAIN written.files
                /\ written.files[ResponseFileName(statusCode)] = raw.responses[statusCode]
           /\ Cardinality(attached)
                = (IF raw.body # "" THEN 1 ELSE 0) + Cardinality(DOMAIN raw.responses)
           /\ cataloged = Nil =>
                written.markdown = MessageMarkdown(operation, SchemasOf(raw))]_vars

\* C27: the step that reconciles an operation archives the cataloged message
\* only when the version of its latest record differs from the version the step
\* writes for the message (the version override when present, else the
\* document version); a latest record of the version being written is not archived.
C27_ArchivedOnlyWhenVersionDiffers ==
  [][(pc = "messages" /\ operationIndex' = operationIndex + 1) =>
       LET message == buildMessage(document, operations[operationIndex])
           collection == getMessageTypeUtils(operations[operationIndex].type)
           cataloged == GetLatest(catalog[collection], message.id)
       IN  (\E i \in 1 .. Len(NewCalls) : NewCalls[i].call = "versionMessage") =>
             /\ cataloged # Nil
             /\ cataloged.version # message.version
             /\ GetLatest(catalog'[collection], message.id).version = message.version]_vars

\* The calls that archive the current record of an id.
VersionCalls == {"versionDomain", "versionService", "versionMessage"}

\* C28: after every step of a run each id and version is one record of its
\* collection, never a current and an archived one, and no step archives a
\* version of an id of which an archived record exists already.
C28_OneRecordPerIdAndVersion ==
  [][\A c \in Collections :
       /\ \A e1 \in catalog'[c] : \A e2 \in catalog'[c] :
            (e1.id = e2.id /\ e1.version = e2.version) => e1 = e2
       /\ \A e \in catalog[c] :
            e.loc = "versioned" =>
              ~\E i \in 1 .. Len(NewCalls) :
                 /\ NewCalls[i].call \in VersionCalls
                 /\ NewCalls[i].collection = c
                 /\ NewCalls[i].id = e.id
                 /\ NewCalls[i].version = e.version]_vars

SpecFileAttached(spec) ==
  LET written == GetVersion(catalog["services"], ServiceOf(spec).id, ServiceOf(spec).version)
  IN  /\ written # Nil
      /\ written.schemaPath \in DOMAIN written.files
      /\ "openapiPath" \in DOMAIN written.specifications
      /\ written.specifications["openapiPath"] \in DOMAIN written.files

\* C30: once a run has ended, with or without an error, the service record of
\* every spec whose service the run wrote has the file its schemaPath and its
\* specifications.openapiPath name attached at that version.
C30_WrittenServiceHasItsSpecFile ==
  RunDone => \A spec \in ProcessedSpecs : SpecFileAttached(spec)

=============================================================================
